---- MODULE Spec2Model ----
(***************************************************************************)
(* Model of the four PDF operations of server.py: get_smart_chunks (the    *)
(* chunk planner), extract_text_from_pages (ranged text extraction),       *)
(* search_pdf and get_pdf_metadata; of the batch drivers that call them    *)
(* (kb_processor.py, process_kb.py, process_kb_sequential.py and           *)
(* process_kb_parallel.py); and of auto_git.py.                            *)
(*                                                                         *)
(* A document is the list pdf.pages.  A page is modelled by what           *)
(* page.extract_text() returns for it: None, or a string, of which only    *)
(* the length matters to the planner and to extraction, so a string is     *)
(* <<length>>.  The text joined from page-marker blocks is modelled as the *)
(* sequence of its blocks.  search_pdf reads the characters themselves:    *)
(* texts holds, for every page, page.extract_text() or "" as a sequence of *)
(* one-character strings.                                                  *)
(***************************************************************************)
EXTENDS Integers, Sequences, FiniteSets, TLC

\* ---------------------------------------------------------------- bounds
MaxPages == 3
MaxPageChars == 3
MaxBudget == 3
MaxOverlap == 3
\* cap on the iterations of the planning loop that are explored; every
\* call that returns emits fewer chunks than this, so the cap only cuts
\* runs of a loop that never ends
MaxChunks == 6
\* search_pdf: pages and characters of text (all pages together) of the
\* documents searched, length of the query, context_chars and max_results
MaxSearchPages == 3
MaxTextLen == 3
MaxQueryLen == 2
MaxContext == 1
MaxResults == 2
\* auto_git: characters of the version string found in version.json
MaxVersionLen == 5
\* batch drivers: the documents of the list that are processed
MaxPdfs == 3
\* process_kb_parallel: what cpu_count() may return
MaxCpus == 2

\* ------------------------------------------------- Python values
\* None (an absent argument, or extract_text() yielding nothing)
None == <<>>
Some(v) == <<v>>
Val(o) == o[1]

\* page.extract_text() or ""  -> the length of the resulting string
PageTextLen(page) == IF page = None THEN 0 ELSE Val(page)

\* pdf.pages[i] for a 0-based Python index: negative indices count from the
\* end, anything outside -len..len-1 raises IndexError
PyIndexOk(pages, i) == (-Len(pages) <= i) /\ (i < Len(pages))
PyIndex(pages, i) == IF i >= 0 THEN pages[i + 1] ELSE pages[Len(pages) + i + 1]

\* ------------------------------------------------- documents
PageValues == {None} \cup {Some(n) : n \in 0..MaxPageChars}

RECURSIVE SeqsUpTo(_, _)
SeqsUpTo(S, n) ==
    IF n = 0 THEN {<<>>}
    ELSE LET shorter == SeqsUpTo(S, n - 1)
         IN  shorter \cup {Append(s, x) : s \in {t \in shorter : Len(t) = n - 1}, x \in S}

\* the 10-page document of the worked example: pages 1-5 hold 6,000
\* characters each, pages 6-10 hold 1,000 each
ExampleDoc == [i \in 1..10 |-> IF i <= 5 THEN Some(6000) ELSE Some(1000)]

Docs == SeqsUpTo(PageValues, MaxPages) \cup {ExampleDoc}

\* characters of page texts and of queries; str.lower() maps "A" to "a" and
\* "B" to "b" and leaves the other characters alone
TextAlphabet == {"A", "b"}
QueryAlphabet == {"a", "B"}
LowerChar(c) == IF c = "A" THEN "a" ELSE IF c = "B" THEN "b" ELSE c
Lower(str) == [i \in 1..Len(str) |-> LowerChar(str[i])]

\* the characters the model gives a page of which only the length is known:
\* the page repeats a pattern in which, read in a circle and without regard to
\* case, every word of three letters over the alphabet occurs
CanonCycle == <<"A", "A", "A", "b", "A", "b", "b", "b">>
CanonText(n) == [i \in 1..n |-> CanonCycle[((i - 1) % Len(CanonCycle)) + 1]]
CanonTexts(pages) == [i \in 1..Len(pages) |-> CanonText(PageTextLen(pages[i]))]

\* the documents of at most `pages` pages holding at most `chars` characters
\* of text between them
RECURSIVE DocsWithin(_, _)
DocsWithin(pages, chars) ==
    IF pages = 0 THEN {<<>>}
    ELSE {<<>>} \cup
         UNION {{<<t>> \o d : d \in DocsWithin(pages - 1, chars - Len(t))} :
                   t \in SeqsUpTo(TextAlphabet, chars)}

TextDocs == DocsWithin(MaxSearchPages, MaxTextLen)
LengthsOf(pageTexts) == [i \in 1..Len(pageTexts) |-> Some(Len(pageTexts[i]))]
Budgets == (1..MaxBudget) \cup {10000}
Overlaps == 0..MaxOverlap

VARIABLES
    file_exists,          \* Path(pdf_path).exists()
    file_readable,        \* the PDF library can open the file
    doc,                  \* pdf.pages of the file at pdf_path
    texts,                \* the characters of each page's text
    handles,              \* number of open document handles
    pc,                   \* "idle" | "planning" | "done" (result returned)
    op,                   \* the operation called last
    max_chars_per_chunk,  \* get_smart_chunks argument
    overlap_pages,        \* get_smart_chunks argument
    current_page,         \* get_smart_chunks local
    chunk_num,            \* get_smart_chunks local
    chunks,               \* get_smart_chunks local
    start_page,           \* extract_text_from_pages argument
    end_page,             \* extract_text_from_pages argument (None or Some)
    max_chars,            \* extract_text_from_pages argument (None or Some)
    query,                \* search_pdf argument
    context_chars,        \* search_pdf argument
    max_results,          \* search_pdf argument
    doc_info,             \* reader.metadata as get_pdf_metadata read it
    result,               \* the dict the operation returned
    \* ---- the batch drivers (kb_processor.py, process_kb*.py)
    driver,               \* the script that runs, or "none"
    pdfs,                 \* the listed documents, as files on disk
    pdf_index,            \* 1-based position of the loop in pdfs
    batch_pc,             \* position of the driver within its loop
    batch_results,        \* the list of per-document records
    num_workers,          \* process_kb_parallel: size of the pool
    task,                 \* process_kb_parallel: state of each map task
    \* ---- auto_git.py
    version_file,         \* version.json: None or the dict it holds
    changelog_file,       \* CHANGELOG.md: None or its content
    git_pc,               \* position within main / increment_version
    version_type,         \* main's version_type once it is decided
    new_version,          \* the string increment_version returned
    last_git,             \* the last git command run and its outcome
    returned              \* None, or Some(value main returned)

batchVars == <<driver, pdfs, pdf_index, batch_pc, batch_results>>
poolVars == <<num_workers, task>>
gitVars == <<version_file, changelog_file, git_pc, version_type, new_version,
             last_git, returned>>
\* the state of the programs that call the operations
callerVars == <<batchVars, poolVars, gitVars>>

vars == <<file_exists, file_readable, doc, texts, handles, pc, op,
          max_chars_per_chunk, overlap_pages, current_page, chunk_num, chunks,
          start_page, end_page, max_chars, query, context_chars, max_results,
          doc_info, result, callerVars>>

fileVars == <<file_exists, file_readable, doc, texts>>
searchArgs == <<query, context_chars, max_results>>

planArgs == <<max_chars_per_chunk, overlap_pages>>
planLocals == <<current_page, chunk_num, chunks>>
extractArgs == <<start_page, end_page, max_chars>>
\* the state of the four operations
serverVars == <<fileVars, handles, pc, op, planArgs, planLocals, extractArgs,
                searchArgs, doc_info, result>>

NoResult == [pending |-> TRUE]
\* str(path.absolute())
AbsPath == "abs(pdf_path)"
IsError(r) == "error" \in DOMAIN r

total_pages == Len(doc)

\* everything but the file: no call in progress, no handle open
InitCall ==
    /\ handles = 0
    /\ query = <<>>
    /\ context_chars = 0
    /\ max_results = 0
    /\ doc_info = None
    /\ pc = "idle"
    /\ op = "none"
    /\ max_chars_per_chunk = 0
    /\ overlap_pages = 0
    /\ current_page = 0
    /\ chunk_num = 0
    /\ chunks = <<>>
    /\ start_page = 0
    /\ end_page = None
    /\ max_chars = None
    /\ result = NoResult

\* no batch driver runs
NoBatch ==
    /\ driver = "none"
    /\ pdfs = <<>>
    /\ pdf_index = 0
    /\ batch_pc = "none"
    /\ batch_results = <<>>
    /\ num_workers = 0
    /\ task = <<>>

\* auto_git.py does not run
NoGit ==
    /\ version_file = None
    /\ changelog_file = None
    /\ git_pc = "none"
    /\ version_type = None
    /\ new_version = None
    /\ last_git = None
    /\ returned = None

\* the file at pdf_path: a document, a file the PDF library cannot open, or
\* no file
Init ==
    /\ \/ file_exists = TRUE /\ file_readable = TRUE /\ doc \in Docs
       \/ file_exists = TRUE /\ file_readable = FALSE /\ doc = <<>>
       \/ file_exists = FALSE /\ file_readable = FALSE /\ doc = <<>>
    /\ texts = CanonTexts(doc)
    /\ InitCall
    /\ NoBatch
    /\ NoGit

\* the documents search_pdf is checked on: every text over TextAlphabet
SearchInit ==
    /\ file_exists = TRUE
    /\ file_readable = TRUE
    /\ texts \in TextDocs
    /\ doc = LengthsOf(texts)
    /\ InitCall
    /\ NoBatch
    /\ NoGit

\* variant: the handler catches IndexError only
ExceptClause_IndexErrorOnly(kind) == kind = "IndexError"

\* "except Exception as e": the handler of every operation catches every
\* exception the body raises
ExceptClause(kind) == TRUE

\* entering and leaving "with pdfplumber.open(pdf_path) as pdf" (or
\* pypdf.PdfReader): the handle is released however the block is left
OpenHandle(n) == n + 1
\* variant: leaving the block keeps the handle open
CloseHandle_Leak(n) == n
CloseHandle(n) == n - 1

\* the state an operation is left in when its body raises `kind` with the
\* operation's error message `msg`
Raises(kind, msg) ==
    IF ExceptClause(kind)
    THEN /\ pc' = "done"
         /\ result' = [error |-> msg]
    ELSE /\ pc' = "raised"
         /\ result' = NoResult

\* the arguments and locals of the operations that are not running
NoPlan ==
    /\ max_chars_per_chunk' = 0
    /\ overlap_pages' = 0
    /\ current_page' = 0
    /\ chunk_num' = 0
    /\ chunks' = <<>>
NoExtract ==
    /\ start_page' = 0
    /\ end_page' = None
    /\ max_chars' = None
NoSearch ==
    /\ query' = <<>>
    /\ context_chars' = 0
    /\ max_results' = 0
NoMetadata == doc_info' = None

\* =====================================================================
\* get_smart_chunks
\* =====================================================================

\* the break test of the inner for loop
BreakCond(test_chars, len, maxc, endp, current) ==
    (test_chars + len > maxc) /\ (endp > current)

\* variant: the estimate counts one character more per page than the text has
AddPageChars_CountsMarker(test_chars, len) == test_chars + len + 1

\* test_chars += len(page_text)
AddPageChars(test_chars, len) == test_chars + len

\* the inner for loop: for page_num in range(current_page - 1, total_pages)
RECURSIVE ScanFrom(_, _, _, _, _, _)
ScanFrom(pages, page_num, current, maxc, test_chars, endp) ==
    IF page_num >= Len(pages)
    THEN [raised |-> FALSE, end_page |-> endp, test_chars |-> test_chars]
    ELSE IF ~PyIndexOk(pages, page_num)
    THEN [raised |-> TRUE, end_page |-> endp, test_chars |-> test_chars]
    ELSE LET len == PageTextLen(PyIndex(pages, page_num))
         IN  IF BreakCond(test_chars, len, maxc, endp, current)
             THEN [raised |-> FALSE, end_page |-> endp, test_chars |-> test_chars]
             ELSE ScanFrom(pages, page_num + 1, current, maxc,
                           AddPageChars(test_chars, len), page_num + 1)

\* test_chars = 0; end_page = current_page; then the for loop
ScanChunk(pages, current, maxc) ==
    ScanFrom(pages, current - 1, current, maxc, 0, current)

\* variants of the advance: one that skips a page, one that steps back one
\* page more than the overlap
NextPage_SkipsPage(endp, overlap) == endp + 2 - overlap
NextPage_ExtraOverlap(endp, overlap) == endp - overlap

\* "Move to next chunk with overlap"
NextPage(endp, overlap) ==
    LET moved == endp + 1 - overlap
    IN  IF moved <= endp - overlap THEN endp + 1 ELSE moved

\* variant: the chunk counter is never advanced
NextChunkNum_Stuck(n) == n

\* chunk_num += 1
NextChunkNum(n) == n + 1

\* variant: the loop runs one page past the end
WhileCond_OnePastEnd(current, total) == current <= total + 1

\* while current_page <= total_pages
WhileCond(current, total) == current <= total

CallGetSmartChunks ==
    /\ pc = "idle"
    /\ \E maxc \in Budgets, ov \in Overlaps :
          /\ max_chars_per_chunk' = maxc
          /\ overlap_pages' = ov
    /\ op' = "get_smart_chunks"
    /\ NoExtract /\ NoSearch /\ NoMetadata
    /\ IF ~file_exists
       THEN /\ pc' = "done"
            /\ current_page' = 0
            /\ chunk_num' = 0
            /\ chunks' = <<>>
            /\ result' = [error |-> "File not found"]
            /\ handles' = handles
       ELSE IF ~file_readable
       THEN /\ Raises("PdfReadError", "Failed to calculate chunks")
            /\ current_page' = 0
            /\ chunk_num' = 0
            /\ chunks' = <<>>
            /\ handles' = handles
       ELSE /\ pc' = "planning"
            /\ current_page' = 1
            /\ chunk_num' = 1
            /\ chunks' = <<>>
            /\ result' = NoResult
            /\ handles' = OpenHandle(handles)
    /\ UNCHANGED <<fileVars, callerVars>>

\* one iteration of the while loop that completes
PlanIter ==
    /\ pc = "planning"
    /\ WhileCond(current_page, total_pages)
    /\ Len(chunks) < MaxChunks
    /\ LET scan == ScanChunk(doc, current_page, max_chars_per_chunk)
       IN  /\ ~scan.raised
           /\ chunks' = Append(chunks, [chunk_number |-> chunk_num,
                                        start_page |-> current_page,
                                        end_page |-> scan.end_page,
                                        estimated_chars |-> scan.test_chars])
           /\ current_page' = NextPage(scan.end_page, overlap_pages)
           /\ chunk_num' = NextChunkNum(chunk_num)
    /\ UNCHANGED <<fileVars, callerVars, handles, pc, op, planArgs, extractArgs,
                   searchArgs, doc_info, result>>

\* an iteration in which pdf.pages[page_num] raises IndexError, caught by
\* the except clause of the function
PlanRaise ==
    /\ pc = "planning"
    /\ WhileCond(current_page, total_pages)
    /\ Len(chunks) < MaxChunks
    /\ ScanChunk(doc, current_page, max_chars_per_chunk).raised
    /\ Raises("IndexError", "Failed to calculate chunks")
    /\ handles' = CloseHandle(handles)
    /\ UNCHANGED <<fileVars, callerVars, op, planArgs, planLocals, extractArgs,
                   searchArgs, doc_info>>

\* the loop condition fails: return the plan
PlanReturn ==
    /\ pc = "planning"
    /\ ~WhileCond(current_page, total_pages)
    /\ pc' = "done"
    /\ result' = [pdf_path |-> AbsPath,
                  total_pages |-> total_pages,
                  max_chars_per_chunk |-> max_chars_per_chunk,
                  overlap_pages |-> overlap_pages,
                  total_chunks |-> Len(chunks),
                  chunks |-> chunks]
    /\ handles' = CloseHandle(handles)
    /\ UNCHANGED <<fileVars, callerVars, op, planArgs, planLocals, extractArgs,
                   searchArgs, doc_info>>

\* =====================================================================
\* extract_text_from_pages
\* =====================================================================

\* variant: the last page is rejected as a start page
InvalidStart_RejectsLast(start, total) == (start < 1) \/ (start >= total)

\* the range check on start_page
InvalidStart(start, total) == (start < 1) \/ (start > total)

\* variant: a too large end_page is not clamped
ClampEnd_NoClamp(endp, total) == IF endp = None THEN total ELSE Val(endp)

\* end_page defaults to total_pages when absent and is clamped to it
ClampEnd(endp, total) ==
    IF endp = None THEN total
    ELSE IF Val(endp) > total THEN total ELSE Val(endp)

\* variants of the budget test: one that lets a page through one character
\* over the budget, one that cuts a page that fills the budget exactly
BudgetHit_OneOver(maxc, total_chars, len) ==
    /\ maxc # None
    /\ Val(maxc) # 0
    /\ total_chars + len > Val(maxc) + 1
BudgetHit_AtLimit(maxc, total_chars, len) ==
    /\ maxc # None
    /\ Val(maxc) # 0
    /\ total_chars + len >= Val(maxc)

\* if max_chars and (total_chars + len(page_text)) > max_chars
BudgetHit(maxc, total_chars, len) ==
    /\ maxc # None
    /\ Val(maxc) # 0
    /\ total_chars + len > Val(maxc)

\* variant: the page that hits the budget is kept whole
SliceLen_WholePage(len, k) == len

\* len(s[:k]) for a string of length len
SliceLen(len, k) ==
    IF k >= 0 THEN (IF k < len THEN k ELSE len)
    ELSE (IF len + k > 0 THEN len + k ELSE 0)

\* a page-marker block of the extracted text: "--- Page N ---\n<text>" or
\* "--- Page N (partial) ---\n<text>"
Block(page_no, partial, chars) ==
    [page |-> page_no, partial |-> partial, chars |-> chars]

NoExtraction ==
    [raised |-> FALSE, extracted_text |-> <<>>, total_chars |-> 0,
     pages_processed |-> 0, truncated |-> FALSE]

\* for page_num in range(start_page - 1, end_page)
RECURSIVE ExtractFrom(_, _, _, _, _)
ExtractFrom(pages, page_num, endp, maxc, acc) ==
    IF page_num >= endp THEN acc
    ELSE IF ~PyIndexOk(pages, page_num) THEN [acc EXCEPT !.raised = TRUE]
    ELSE LET len == PageTextLen(PyIndex(pages, page_num))
         IN  IF BudgetHit(maxc, acc.total_chars, len)
             THEN LET remaining_chars == Val(maxc) - acc.total_chars
                  IN  [raised |-> FALSE,
                       extracted_text |->
                           Append(acc.extracted_text,
                                  Block(page_num + 1, TRUE,
                                        SliceLen(len, remaining_chars))),
                       total_chars |-> acc.total_chars + remaining_chars,
                       pages_processed |-> acc.pages_processed + 1,
                       truncated |-> TRUE]
             ELSE ExtractFrom(pages, page_num + 1, endp, maxc,
                      [raised |-> FALSE,
                       extracted_text |->
                           Append(acc.extracted_text,
                                  Block(page_num + 1, FALSE, len)),
                       total_chars |-> acc.total_chars + len,
                       pages_processed |-> acc.pages_processed + 1,
                       truncated |-> FALSE])

\* the dict extract_text_from_pages returns for an existing file
ExtractResult(pages, start, endp, maxc) ==
    LET total == Len(pages)
    IN  IF InvalidStart(start, total)
        THEN [error |-> "Invalid start_page"]
        ELSE LET last == ClampEnd(endp, total)
                 ext == ExtractFrom(pages, start - 1, last, maxc, NoExtraction)
                 base == [pdf_path |-> AbsPath,
                          total_pages |-> total,
                          pages_requested |-> <<start, last>>,
                          pages_processed |-> ext.pages_processed,
                          text_length_chars |-> ext.total_chars,
                          text |-> ext.extracted_text]
             IN  IF ext.raised THEN [error |-> "Failed to extract text"]
                 ELSE IF ext.truncated
                 THEN base @@ [truncated |-> TRUE, note |-> Val(maxc)]
                 ELSE base

StartPages == 0..(MaxPages + 1)
EndPages == {None} \cup {Some(e) : e \in (-1)..(MaxPages + 1)}
MaxCharsArgs == {None} \cup {Some(m) : m \in 0..MaxBudget}

ExtractTextFromPages ==
    /\ pc = "idle"
    /\ \E s \in StartPages, e \in EndPages, m \in MaxCharsArgs :
          /\ start_page' = s
          /\ end_page' = e
          /\ max_chars' = m
          /\ IF ~file_exists
             THEN /\ pc' = "done"
                  /\ result' = [error |-> "File not found"]
                  /\ handles' = handles
             ELSE IF ~file_readable
             THEN /\ Raises("PdfReadError", "Failed to extract text")
                  /\ handles' = handles
             ELSE LET r == ExtractResult(doc, s, e, m)
                  IN  /\ IF r = [error |-> "Failed to extract text"]
                         THEN Raises("IndexError", "Failed to extract text")
                         ELSE pc' = "done" /\ result' = r
                      /\ handles' = CloseHandle(OpenHandle(handles))
    /\ op' = "extract_text_from_pages"
    /\ NoPlan /\ NoSearch /\ NoMetadata
    /\ UNCHANGED <<fileVars, callerVars>>

\* =====================================================================
\* search_pdf
\* =====================================================================

\* str.find(sub, start): the lowest index >= start at which sub occurs in
\* str (0-based), or -1
OccursAt(str, sub, i) ==
    \A k \in 1..Len(sub) : str[i + k] = sub[k]
Find(str, sub, start) ==
    LET places == start..(Len(str) - Len(sub))
    IN  IF \E i \in places : OccursAt(str, sub, i)
        THEN CHOOSE i \in places :
                 /\ OccursAt(str, sub, i)
                 /\ \A j \in start..(i - 1) : ~OccursAt(str, sub, j)
        ELSE -1

\* str[from:to] for 0 <= from
Slice(str, from, to) ==
    SubSeq(str, from + 1, IF to < Len(str) THEN to ELSE Len(str))

Ellipsis == <<".", ".", ".">>

\* variant: the window ends context_chars after the start of the match
ContextEnd_FromMatchStart(idx, qlen, ctx, textLen) ==
    IF idx + ctx < textLen THEN idx + ctx ELSE textLen

\* context_start and context_end of a match at idx
ContextStart(idx, ctx) == IF idx - ctx > 0 THEN idx - ctx ELSE 0
ContextEnd(idx, qlen, ctx, textLen) ==
    IF idx + qlen + ctx < textLen THEN idx + qlen + ctx ELSE textLen

\* the context string of a match: the window, with an ellipsis on each side
\* that is cut
Context(text, idx, qlen, ctx) ==
    LET context_start == ContextStart(idx, ctx)
        context_end == ContextEnd(idx, qlen, ctx, Len(text))
        window == Slice(text, context_start, context_end)
        left == IF context_start > 0 THEN Ellipsis \o window ELSE window
    IN  IF context_end < Len(text) THEN left \o Ellipsis ELSE left

\* the two sides of the comparison: page_text.lower() and query.lower()
PageTextLower(text) == Lower(text)
QueryLower(q) == Lower(q)

\* variant: the search resumes after the end of the match
NextStart_PastMatch(idx, qlen) == idx + qlen

\* start_idx = idx + 1
NextStart(idx, qlen) == idx + 1

\* variant: the limit is tested one match late
LimitReached_OneLate(n, maxres) == n > maxres

\* len(results) >= max_results
LimitReached(n, maxres) == n >= maxres

\* the "while True" loop over one page
RECURSIVE SearchPage(_, _, _, _, _, _, _, _)
SearchPage(page_num, page_text, text_lower, q, query_lower, ctx, maxres, state) ==
    LET idx == Find(text_lower, query_lower, state.start_idx)
    IN  IF idx = -1 THEN state.results
        ELSE LET found == Append(state.results,
                              [page |-> page_num,
                               context |-> Context(page_text, idx, Len(q), ctx),
                               position |-> idx])
             IN  IF LimitReached(Len(found), maxres) THEN found
                 ELSE SearchPage(page_num, page_text, text_lower, q,
                                 query_lower, ctx, maxres,
                                 [start_idx |-> NextStart(idx, Len(q)),
                                  results |-> found])

\* for page_num, page in enumerate(pdf.pages, start=1)
RECURSIVE SearchPages(_, _, _, _, _, _, _)
SearchPages(pageTexts, page_num, q, query_lower, ctx, maxres, results) ==
    IF page_num > Len(pageTexts) THEN results
    ELSE LET page_text == pageTexts[page_num]
             found == SearchPage(page_num, page_text, PageTextLower(page_text),
                                 q, query_lower, ctx, maxres,
                                 [start_idx |-> 0, results |-> results])
         IN  IF LimitReached(Len(found), maxres) THEN found
             ELSE SearchPages(pageTexts, page_num + 1, q, query_lower, ctx,
                              maxres, found)

\* the dict search_pdf returns for a readable file
SearchResult(pageTexts, q, ctx, maxres) ==
    LET results == SearchPages(pageTexts, 1, q, QueryLower(q), ctx, maxres, <<>>)
    IN  [pdf_path |-> AbsPath,
         query |-> q,
         total_matches |-> Len(results),
         matches |-> results,
         truncated |-> LimitReached(Len(results), maxres)]

Queries == SeqsUpTo(QueryAlphabet, MaxQueryLen)
ContextArgs == 0..MaxContext
MaxResultsArgs == (1..MaxResults) \cup {50}

SearchPdf ==
    /\ pc = "idle"
    /\ \E q \in Queries, ctx \in ContextArgs, maxres \in MaxResultsArgs :
          /\ query' = q
          /\ context_chars' = ctx
          /\ max_results' = maxres
          /\ IF ~file_exists
             THEN /\ pc' = "done"
                  /\ result' = [error |-> "File not found"]
                  /\ handles' = handles
             ELSE IF ~file_readable
             THEN /\ Raises("PdfReadError", "Failed to search PDF")
                  /\ handles' = handles
             ELSE /\ pc' = "done"
                  /\ result' = SearchResult(texts, q, ctx, maxres)
                  /\ handles' = CloseHandle(OpenHandle(handles))
    /\ op' = "search_pdf"
    /\ NoPlan /\ NoExtract /\ NoMetadata
    /\ UNCHANGED <<fileVars, callerVars>>

\* =====================================================================
\* get_pdf_metadata
\* =====================================================================

\* the keys a document information dictionary may declare, and the value
\* the model gives each declared key
InfoKeys == {"/Title", "/Author", "/Subject", "/Creator", "/Producer"}
InfoValue(key) ==
    CASE key = "/Title" -> "a title"
      [] key = "/Author" -> "an author"
      [] key = "/Subject" -> "a subject"
      [] key = "/Creator" -> "a creator"
      [] OTHER -> "a producer"

\* reader.metadata: None (also standing for an empty dictionary, which is
\* as falsy) or a dictionary declaring some of the keys
DocInfos == {None} \cup {[k \in S |-> InfoValue(k)] : S \in (SUBSET InfoKeys) \ {{}}}

\* variant: an undeclared field is filled with a placeholder
InfoGet_Placeholder(info, key) ==
    IF key \in DOMAIN info THEN info[key] ELSE "Unknown"

\* reader.metadata.get(key, "")
InfoGet(info, key) == IF key \in DOMAIN info THEN info[key] ELSE ""

\* round(file_size / (1024 * 1024), 2), in hundredths of a megabyte
FileSizeMb(file_size) ==
    (file_size * 100 * 2 + 1024 * 1024) \div (2 * 1024 * 1024)

FileSizes == {0, 1024 * 1024 + 512 * 1024 + 7000}

\* the dict get_pdf_metadata returns for a readable file
MetadataResult(pages, file_size, encrypted, info) ==
    LET metadata == [file_path |-> AbsPath,
                     file_size_bytes |-> file_size,
                     file_size_mb |-> FileSizeMb(file_size),
                     page_count |-> Len(pages),
                     is_encrypted |-> encrypted]
    IN  IF info # None
        THEN metadata @@ [title |-> InfoGet(info, "/Title"),
                          author |-> InfoGet(info, "/Author"),
                          subject |-> InfoGet(info, "/Subject"),
                          creator |-> InfoGet(info, "/Creator")]
        ELSE metadata

GetPdfMetadata ==
    /\ pc = "idle"
    /\ IF ~file_exists
       THEN /\ pc' = "done"
            /\ result' = [error |-> "File not found"]
            /\ doc_info' = None
            /\ handles' = handles
       ELSE IF ~file_readable
       THEN /\ Raises("PdfReadError", "Failed to read PDF metadata")
            /\ doc_info' = None
            /\ handles' = handles
       ELSE \E file_size \in FileSizes, encrypted \in BOOLEAN, info \in DocInfos :
               /\ pc' = "done"
               /\ doc_info' = info
               /\ result' = MetadataResult(doc, file_size, encrypted, info)
               /\ handles' = CloseHandle(OpenHandle(handles))
    /\ op' = "get_pdf_metadata"
    /\ NoPlan /\ NoExtract /\ NoSearch
    /\ UNCHANGED <<fileVars, callerVars>>

\* call_tool serialises the result for the client; the operations keep no
\* state from one call to the next
ReturnToCaller ==
    /\ pc = "done"
    /\ pc' = "idle"
    /\ op' = "none"
    /\ NoPlan /\ NoExtract /\ NoSearch /\ NoMetadata
    /\ result' = NoResult
    /\ UNCHANGED <<fileVars, callerVars, handles>>

Next ==
    \/ ReturnToCaller
    \/ CallGetSmartChunks
    \/ PlanIter
    \/ PlanRaise
    \/ PlanReturn
    \/ ExtractTextFromPages
    \/ SearchPdf
    \/ GetPdfMetadata

Spec == Init /\ [][Next]_vars

\* search_pdf alone, over every document of TextDocs
SearchNext ==
    \/ ReturnToCaller
    \/ SearchPdf

SearchSpec == SearchInit /\ [][SearchNext]_vars

\* the planner's loop is a sequential loop: an enabled iteration or return
\* is eventually executed
LiveSpec == Spec /\ WF_vars(PlanIter) /\ WF_vars(PlanRaise) /\ WF_vars(PlanReturn)

\* =====================================================================
\* auto_git.py
\* =====================================================================

\* a string is the sequence of its characters
Digits == <<"0", "1", "2", "3", "4", "5", "6", "7", "8", "9">>
IsDigit(c) == \E d \in 1..Len(Digits) : Digits[d] = c
DigitVal(c) == (CHOOSE d \in 1..Len(Digits) : Digits[d] = c) - 1

\* the characters of the version strings version.json may hold
VersionAlphabet == {"0", "9", ".", "-"}
VersionStrings == SeqsUpTo(VersionAlphabet, MaxVersionLen)

\* str.split(sep): the fields between the occurrences of sep
RECURSIVE Split(_, _)
Split(str, sep) ==
    IF \A i \in 1..Len(str) : str[i] # sep THEN <<str>>
    ELSE LET i == CHOOSE j \in 1..Len(str) :
                      /\ str[j] = sep
                      /\ \A k \in 1..(j - 1) : str[k] # sep
         IN  <<SubSeq(str, 1, i - 1)>> \o Split(SubSeq(str, i + 1, Len(str)), sep)

\* int(s) succeeds on an optional sign followed by one or more digits and
\* raises ValueError on anything else over VersionAlphabet
IntOk(s) ==
    LET body == IF s # <<>> /\ s[1] = "-" THEN Tail(s) ELSE s
    IN  /\ body # <<>>
        /\ \A i \in 1..Len(body) : IsDigit(body[i])

RECURSIVE DigitsVal(_)
DigitsVal(s) ==
    IF s = <<>> THEN 0
    ELSE DigitsVal(SubSeq(s, 1, Len(s) - 1)) * 10 + DigitVal(s[Len(s)])

\* int(s) where it succeeds
IntOf(s) == IF s[1] = "-" THEN 0 - DigitsVal(Tail(s)) ELSE DigitsVal(s)

\* str(n)
RECURSIVE NatStr(_)
NatStr(n) ==
    IF n < 10 THEN <<Digits[n + 1]>>
    ELSE NatStr(n \div 10) \o <<Digits[(n % 10) + 1]>>
Str(n) == IF n < 0 THEN <<"-">> \o NatStr(0 - n) ELSE NatStr(n)

\* f"{major}.{minor}.{patch}"
FormatVersion(v) == Str(v[1]) \o <<".">> \o Str(v[2]) \o <<".">> \o Str(v[3])

\* dict.get(key, default)
DictGet(d, key, default) == IF key \in DOMAIN d THEN d[key] ELSE default

DefaultVersion == <<"0", ".", "0", ".", "0">>

\* get_current_version
GetCurrentVersion(vf) ==
    IF vf = None THEN DefaultVersion
    ELSE DictGet(Val(vf), "version", DefaultVersion)

\* major, minor, patch = map(int, current.split('.')) succeeds
ParsesAsVersion(str) ==
    LET fields == Split(str, ".")
    IN  /\ Len(fields) = 3
        /\ \A i \in 1..Len(fields) : IntOk(fields[i])
ParseVersion(str) ==
    LET fields == Split(str, ".")
    IN  <<IntOf(fields[1]), IntOf(fields[2]), IntOf(fields[3])>>

\* variant: a minor bump keeps the patch number
BumpVersion_MinorKeepsPatch(v, vtype) ==
    IF vtype = "major" THEN <<v[1] + 1, 0, 0>>
    ELSE IF vtype = "minor" THEN <<v[1], v[2] + 1, v[3]>>
    ELSE <<v[1], v[2], v[3] + 1>>

\* the if / elif / else of increment_version
BumpVersion(v, vtype) ==
    IF vtype = "major" THEN <<v[1] + 1, 0, 0>>
    ELSE IF vtype = "minor" THEN <<v[1], v[2] + 1, 0>>
    ELSE <<v[1], v[2], v[3] + 1>>

\* increment_version(version_type) with version.json holding vf
IncrementVersion(vf, vtype) ==
    LET current == GetCurrentVersion(vf)
    IN  IF ~ParsesAsVersion(current)
        THEN [raised |-> TRUE]
        ELSE [raised |-> FALSE,
              version |-> FormatVersion(BumpVersion(ParseVersion(current), vtype))]

\* update_changelog: the new entry goes right after the header, which is
\* added if the file did not have one
UpdateChangelog(cf, version) ==
    IF cf = None THEN Some([header |-> TRUE, entries |-> <<version>>])
    ELSE Some([header |-> TRUE, entries |-> <<version>> \o Val(cf).entries])

\* version_data as main dumps it to version.json
VersionData(version, vtype) ==
    [version |-> version, updated |-> "now", type |-> vtype,
     summary |-> "changes_summary"]

\* variant: main reports a failed push as a failure
ReturnAfterPush_PushOutcome(success) == success

\* main returns True after the push, whether the push succeeded or not
ReturnAfterPush(success) == TRUE

VersionFiles ==
    {None, Some([updated |-> "now"])} \cup
    {Some([version |-> v]) : v \in VersionStrings}
ChangelogFiles ==
    {None,
     Some([header |-> FALSE, entries |-> <<>>]),
     Some([header |-> TRUE, entries |-> <<DefaultVersion>>])}

\* what the command line can pass as version_type, and what
\* analyze_changes can return (its 'breaking' list is never filled)
VersionTypeArgs == {None, Some("major"), Some("minor"), Some("patch")}
AnalyzedTypes == {"minor", "patch"}
\* what a direct caller of increment_version can pass
VersionTypes == {"major", "minor", "patch", "hotfix"}

\* the files next to auto_git.py before it runs; no PDF operation runs
GitInit ==
    /\ file_exists = FALSE
    /\ file_readable = FALSE
    /\ doc = <<>>
    /\ texts = <<>>
    /\ InitCall
    /\ NoBatch
    /\ version_file \in VersionFiles
    /\ changelog_file \in ChangelogFiles
    /\ git_pc = "idle"
    /\ version_type = None
    /\ new_version = None
    /\ last_git = None
    /\ returned = None

GitCommand(command, success) == Some([command |-> command, success |-> success])

\* a direct call of increment_version
CallIncrementVersion ==
    /\ git_pc = "idle"
    /\ \E vtype \in VersionTypes :
          LET r == IncrementVersion(version_file, vtype)
          IN  /\ version_type' = Some(vtype)
              /\ IF r.raised
                 THEN /\ git_pc' = "raised"
                      /\ new_version' = None
                 ELSE /\ git_pc' = "incremented"
                      /\ new_version' = Some(r.version)
    /\ UNCHANGED <<serverVars, batchVars, poolVars, version_file,
                   changelog_file, last_git, returned>>

\* main up to the version bump: git status, and the choice of version_type
MainStart ==
    /\ git_pc = "idle"
    /\ \E arg \in VersionTypeArgs, status \in {"failed", "clean", "changes"} :
          /\ last_git' = GitCommand("status", status # "failed")
          /\ IF status = "failed"
             THEN /\ git_pc' = "returned"
                  /\ returned' = Some(FALSE)
                  /\ version_type' = arg
             ELSE IF status = "clean"
             THEN /\ git_pc' = "returned"
                  /\ returned' = Some(TRUE)
                  /\ version_type' = arg
             ELSE /\ git_pc' = "analyzed"
                  /\ returned' = None
                  /\ IF arg = None
                     THEN \E t \in AnalyzedTypes : version_type' = Some(t)
                     ELSE version_type' = arg
    /\ UNCHANGED <<serverVars, batchVars, poolVars, version_file,
                   changelog_file, new_version>>

\* increment_version, the write of version.json and update_changelog; each
\* of the two writes may fail with OSError, which main does not catch
MainBump ==
    /\ git_pc = "analyzed"
    /\ LET r == IncrementVersion(version_file, Val(version_type))
       IN  IF r.raised
           THEN /\ git_pc' = "raised"
                /\ UNCHANGED <<version_file, changelog_file, new_version>>
           ELSE /\ new_version' = Some(r.version)
                /\ \E io \in {"ok", "version_write_fails", "changelog_write_fails"} :
                      /\ version_file' =
                            IF io = "version_write_fails" THEN version_file
                            ELSE Some(VersionData(r.version, Val(version_type)))
                      /\ changelog_file' =
                            IF io = "ok"
                            THEN UpdateChangelog(changelog_file, r.version)
                            ELSE changelog_file
                      /\ git_pc' = IF io = "ok" THEN "bumped" ELSE "raised"
    /\ UNCHANGED <<serverVars, batchVars, poolVars, version_type, last_git,
                   returned>>

\* git add -A
MainStage ==
    /\ git_pc = "bumped"
    /\ \E success \in BOOLEAN :
          /\ last_git' = GitCommand("add", success)
          /\ git_pc' = IF success THEN "staged" ELSE "returned"
          /\ returned' = IF success THEN None ELSE Some(FALSE)
    /\ UNCHANGED <<serverVars, batchVars, poolVars, version_file,
                   changelog_file, version_type, new_version>>

\* git commit -m ...
MainCommit ==
    /\ git_pc = "staged"
    /\ \E success \in BOOLEAN :
          /\ last_git' = GitCommand("commit", success)
          /\ git_pc' = IF success THEN "committed" ELSE "returned"
          /\ returned' = IF success THEN None ELSE Some(FALSE)
    /\ UNCHANGED <<serverVars, batchVars, poolVars, version_file,
                   changelog_file, version_type, new_version>>

\* git push origin master
MainPush ==
    /\ git_pc = "committed"
    /\ \E success \in BOOLEAN :
          /\ last_git' = GitCommand("push", success)
          /\ returned' = Some(ReturnAfterPush(success))
    /\ git_pc' = "returned"
    /\ UNCHANGED <<serverVars, batchVars, poolVars, version_file,
                   changelog_file, version_type, new_version>>

GitNext ==
    \/ CallIncrementVersion
    \/ MainStart
    \/ MainBump
    \/ MainStage
    \/ MainCommit
    \/ MainPush

GitSpec == GitInit /\ [][GitNext]_vars

\* =====================================================================
\* The sequential batch drivers: kb_processor.py, process_kb.py and
\* process_kb_sequential.py
\* =====================================================================

BatchDrivers == {"kb_processor", "process_kb", "process_kb_sequential"}

\* max_chars_per_chunk as the driver passes it; overlap_pages is left at its
\* default
ChunkSize(d) == IF d = "kb_processor" THEN 30000 ELSE 100000
DefaultOverlap == 1

\* variant: no driver wraps the processing of a document in try / except
CatchesPerDocument_Never(d) == FALSE

\* the drivers whose loop body is wrapped in "try: ... except Exception"
CatchesPerDocument(d) == d \in {"kb_processor", "process_kb_sequential"}

\* the status a driver records for a document whose processing raised
ExceptionStatus(d) == IF d = "kb_processor" THEN "error" ELSE "failed"

\* a listed document as a file on disk: whether it exists, whether the PDF
\* library can open it, its pages, and whether the driver can open the
\* document's output files for writing
DiskFile(exists, readable, pages, writable) ==
    [exists |-> exists, readable |-> readable, pages |-> pages,
     writable |-> writable]
BatchFiles ==
    {DiskFile(FALSE, FALSE, <<>>, TRUE), DiskFile(TRUE, FALSE, <<>>, TRUE)}
    \cup {DiskFile(TRUE, TRUE, pages, writable) :
             pages \in {<<>>, <<Some(1)>>, <<None, Some(MaxPageChars)>>},
             writable \in BOOLEAN}

\* process_kb.py and process_kb_sequential.py list their documents in the
\* script; kb_processor.py globs a directory, which may hold no PDF
BatchInit ==
    /\ driver \in BatchDrivers
    /\ pdfs \in SeqsUpTo(BatchFiles, MaxPdfs)
    /\ driver # "kb_processor" => pdfs # <<>>
    /\ pdf_index = 0
    /\ batch_pc = "loop"
    /\ batch_results = <<>>
    /\ num_workers = 0
    /\ task = <<>>
    /\ file_exists = FALSE
    /\ file_readable = FALSE
    /\ doc = <<>>
    /\ texts = <<>>
    /\ InitCall
    /\ NoGit

BatchRunning == driver \in BatchDrivers

Failed(i, message) == [file |-> i, status |-> "failed", error |-> message]

\* the file the operations are called on is the document the loop is at
OnFile(f) ==
    /\ file_exists' = f.exists
    /\ file_readable' = f.readable
    /\ doc' = f.pages
    /\ texts' = CanonTexts(f.pages)

\* the next document of the list: get_pdf_metadata and the test of its result
BatchGetMetadata ==
    /\ BatchRunning
    /\ batch_pc = "loop"
    /\ pdf_index < Len(pdfs)
    /\ pc = "idle"
    /\ pdf_index' = pdf_index + 1
    /\ OnFile(pdfs[pdf_index + 1])
    /\ IF pdfs[pdf_index + 1].exists /\ pdfs[pdf_index + 1].readable
       THEN /\ batch_pc' = "metadata_ok"
            /\ batch_results' = batch_results
       ELSE /\ batch_pc' = "loop"
            /\ batch_results' =
                  Append(batch_results,
                         Failed(pdf_index + 1,
                                IF pdfs[pdf_index + 1].exists
                                THEN "Failed to read PDF metadata"
                                ELSE "File not found"))
    /\ UNCHANGED <<handles, pc, op, planArgs, planLocals, extractArgs,
                   searchArgs, doc_info, result, driver, pdfs, poolVars,
                   gitVars>>

\* get_smart_chunks(pdf_path, max_chars_per_chunk=...) on a file that
\* get_pdf_metadata has just read
BatchCallGetSmartChunks ==
    /\ BatchRunning
    /\ batch_pc = "metadata_ok"
    /\ pc = "idle"
    /\ batch_pc' = "planning"
    /\ op' = "get_smart_chunks"
    /\ max_chars_per_chunk' = ChunkSize(driver)
    /\ overlap_pages' = DefaultOverlap
    /\ pc' = "planning"
    /\ current_page' = 1
    /\ chunk_num' = 1
    /\ chunks' = <<>>
    /\ result' = NoResult
    /\ handles' = OpenHandle(handles)
    /\ UNCHANGED <<fileVars, extractArgs, searchArgs, doc_info, driver, pdfs,
                   pdf_index, batch_results, poolVars, gitVars>>

\* get_smart_chunks has returned: the test of its result
BatchAfterPlan ==
    /\ BatchRunning
    /\ batch_pc = "planning"
    /\ pc = "done"
    /\ IF IsError(result)
       THEN /\ batch_pc' = "loop"
            /\ batch_results' =
                  Append(batch_results, Failed(pdf_index, result.error))
            /\ chunks' = <<>>
       ELSE /\ batch_pc' = "extracting"
            /\ batch_results' = batch_results
            /\ chunks' = result.chunks
    /\ pc' = "idle"
    /\ op' = "none"
    /\ max_chars_per_chunk' = 0
    /\ overlap_pages' = 0
    /\ current_page' = 0
    /\ chunk_num' = 0
    /\ result' = NoResult
    /\ UNCHANGED <<fileVars, handles, extractArgs, searchArgs, doc_info,
                   driver, pdfs, pdf_index, poolVars, gitVars>>

\* the chunks of `cs` for which extract_text_from_pages returns a result
\* without an error key
Extracted(pages, cs) ==
    {k \in 1..Len(cs) :
        "error" \notin DOMAIN ExtractResult(pages, cs[k].start_page,
                                            Some(cs[k].end_page), None)}

\* the extraction of every chunk of the plan, the write of the text file
\* and of the metadata file, and the record of the document
BatchExtractAndSave ==
    /\ BatchRunning
    /\ batch_pc = "extracting"
    /\ IF pdfs[pdf_index].writable
       THEN /\ batch_pc' = "loop"
            /\ batch_results' =
                  Append(batch_results,
                         [file |-> pdf_index, status |-> "success",
                          pages |-> total_pages,
                          chunks_extracted |->
                              Cardinality(Extracted(doc, chunks))])
       ELSE IF CatchesPerDocument(driver)
       THEN /\ batch_pc' = "loop"
            /\ batch_results' =
                  Append(batch_results,
                         [file |-> pdf_index,
                          status |-> ExceptionStatus(driver),
                          error |-> "OSError"])
       ELSE /\ batch_pc' = "aborted"
            /\ batch_results' = batch_results
    /\ chunks' = <<>>
    /\ UNCHANGED <<fileVars, handles, pc, op, planArgs, current_page,
                   chunk_num, extractArgs, searchArgs, doc_info, result,
                   driver, pdfs, pdf_index, poolVars, gitVars>>

\* the list is exhausted: the summary and the index are written
BatchFinish ==
    /\ BatchRunning
    /\ batch_pc = "loop"
    /\ pdf_index = Len(pdfs)
    /\ batch_pc' = IF pdfs = <<>> THEN "no_pdfs" ELSE "done"
    /\ UNCHANGED <<serverVars, driver, pdfs, pdf_index, batch_results,
                   poolVars, gitVars>>

\* PlanRaise is left out: with overlap_pages = 1 the scan starts at a page
\* index >= 0, so pdf.pages[page_num] does not raise
BatchNext ==
    \/ BatchGetMetadata
    \/ BatchCallGetSmartChunks
    \/ PlanIter
    \/ PlanReturn
    \/ BatchAfterPlan
    \/ BatchExtractAndSave
    \/ BatchFinish

BatchSpec == BatchInit /\ [][BatchNext]_vars

\* the driver and the planner are sequential code: a step that can be taken
\* is taken
BatchLiveSpec ==
    /\ BatchSpec
    /\ WF_vars(BatchGetMetadata)
    /\ WF_vars(BatchCallGetSmartChunks)
    /\ WF_vars(PlanIter)
    /\ WF_vars(PlanReturn)
    /\ WF_vars(BatchAfterPlan)
    /\ WF_vars(BatchExtractAndSave)
    /\ WF_vars(BatchFinish)

\* =====================================================================
\* The parallel batch driver: process_kb_parallel.py
\* =====================================================================

\* the file names of the list `pdfs` of the script, without ".pdf"
\* (Path(pdf_path).stem), in list order
PdfStems ==
  <<
    <<"O", "f", "f", "e", "n", "s", "i", "v", "e", "D", "r", "i", "v",
      "e", "r", "D", "e", "v", "e", "l", "o", "p", "m", "e", "n", "t">>,
    <<"w", "a", "t", "e", "r", "m", "a", "r", "k", "e", "d", "_", "W",
      "K", "L", "_", "O", "D", "P", "C", "_", "L", "a", "b", "_", "G",
      "u", "i", "d", "e", "_", "v", "1", ".", "2", ".", "3", "_", "u",
      "n", "l", "o", "c", "k", "e", "d">>,
    <<"E", "v", "a", "s", "i", "o", "n", "_", "C", "o", "u", "r", "s",
      "e", "_", "S", "l", "i", "d", "e", "s">>,
    <<"E", "v", "a", "s", "i", "v", "e", "M", "a", "l", "w", "a", "r", "e">>,
    <<"W", "i", "n", "d", "o", "w", "s", "S", "e", "c", "u", "r", "i",
      "t", "y", "I", "n", "t", "e", "r", "n", "a", "l", "s">>,
    <<"A", "r", "t", "C", "y", "b", "e", "r", "W", "a", "r", "f", "a",
      "r", "e">>,
    <<"E", "v", "a", "d", "i", "n", "g", "E", "D", "R">>,
    <<"B", "O", "F", " ", "D", "e", "v", "e", "l", "o", "p", "m", "e",
      "n", "t", " ", "a", "n", "d", " ", "T", "r", "a", "d", "e", "c",
      "r", "a", "f", "t", " ", "(", "1", ")">>
  >>

\* str.replace(c, d) and str.replace(c, "") for a single character c
ReplaceChar(str, c, d) == [i \in 1..Len(str) |-> IF str[i] = c THEN d ELSE str[i]]
RemoveChar(str, c) == SelectSeq(str, LAMBDA x : x # c)

\* variant: the output name does not depend on the document
SafeName_Constant(stem) == <<"o", "u", "t">>

\* stem.replace(" ", "_").replace("(", "").replace(")", "")
SafeName(stem) == RemoveChar(RemoveChar(ReplaceChar(stem, " ", "_"), "("), ")")

\* the files a worker opens for document i: the document itself, and in
\* output_dir the text file and the metadata file
DocumentPath(i) == <<"KB", PdfStems[i] \o <<".", "p", "d", "f">>>>
TextFile(i) == <<"extracted", SafeName(PdfStems[i]) \o <<".", "t", "x", "t">>>>
MetadataFile(i) ==
    <<"extracted",
      SafeName(PdfStems[i]) \o
          <<"_", "m", "e", "t", "a", "d", "a", "t", "a", ".", "j", "s", "o", "n">>>>

\* get_smart_chunks(pdf_path, max_chars_per_chunk) as a function of the
\* document: "plan" if the loop ends, "error" if an iteration raises,
\* "running" if the loop is still going after `fuel` iterations
RECURSIVE PlanRun(_, _, _, _, _)
PlanRun(pages, maxc, overlap, current, fuel) ==
    IF ~WhileCond(current, Len(pages)) THEN "plan"
    ELSE IF fuel = 0 THEN "running"
    ELSE LET scan == ScanChunk(pages, current, maxc)
         IN  IF scan.raised THEN "error"
             ELSE PlanRun(pages, maxc, overlap,
                          NextPage(scan.end_page, overlap), fuel - 1)

WorkerPlan(f) == PlanRun(f.pages, ChunkSize("process_kb_parallel"),
                         DefaultOverlap, 1, MaxChunks)

PoolFiles ==
    {DiskFile(FALSE, FALSE, <<>>, TRUE), DiskFile(TRUE, FALSE, <<>>, TRUE),
     DiskFile(TRUE, TRUE, <<>>, TRUE), DiskFile(TRUE, TRUE, <<>>, FALSE),
     DiskFile(TRUE, TRUE, <<Some(1)>>, TRUE)}

Min(a, b) == IF a < b THEN a ELSE b

Queued == [pc |-> "queued", result |-> None, accessed |-> {}]

\* Pool(processes=num_workers) and the tasks of pool.map, none started
PoolInit ==
    /\ driver = "process_kb_parallel"
    /\ \E n \in 1..MaxPdfs :
          /\ pdfs \in [1..n -> PoolFiles]
          /\ \E cpus \in 1..MaxCpus : num_workers = Min(n, cpus)
          /\ task = [i \in 1..n |-> Queued]
    /\ pdf_index = 0
    /\ batch_pc = "mapping"
    /\ batch_results = <<>>
    /\ file_exists = FALSE
    /\ file_readable = FALSE
    /\ doc = <<>>
    /\ texts = <<>>
    /\ InitCall
    /\ NoGit

Busy == {i \in DOMAIN task : task[i].pc \in {"reading", "writing"}}

Finished(i, record) ==
    [pc |-> "finished", result |-> Some(record), accessed |-> task[i].accessed]

poolFixed == <<serverVars, driver, pdfs, pdf_index, num_workers, gitVars>>

\* a free worker takes the next task of the list: get_pdf_metadata and the
\* test of its result
TaskStart ==
    /\ batch_pc = "mapping"
    /\ Cardinality(Busy) < num_workers
    /\ \E i \in DOMAIN task :
          /\ task[i].pc = "queued"
          /\ \A j \in 1..(i - 1) : task[j].pc # "queued"
          /\ task' = [task EXCEPT ![i] =
                IF pdfs[i].exists /\ pdfs[i].readable
                THEN [pc |-> "reading", result |-> None,
                      accessed |-> {DocumentPath(i)}]
                ELSE [Finished(i, Failed(i, IF pdfs[i].exists
                                            THEN "Failed to read PDF metadata"
                                            ELSE "File not found"))
                          EXCEPT !.accessed = {DocumentPath(i)}]]
    /\ UNCHANGED <<poolFixed, batch_pc, batch_results>>

\* get_smart_chunks returns in the worker, and the chunks are extracted
TaskPlan ==
    /\ batch_pc = "mapping"
    /\ \E i \in DOMAIN task :
          /\ task[i].pc = "reading"
          /\ WorkerPlan(pdfs[i]) # "running"
          /\ task' = [task EXCEPT ![i] =
                IF WorkerPlan(pdfs[i]) = "error"
                THEN Finished(i, Failed(i, "Failed to calculate chunks"))
                ELSE [task[i] EXCEPT !.pc = "writing"]]
    /\ UNCHANGED <<poolFixed, batch_pc, batch_results>>

\* the worker writes the text file and the metadata file and returns its
\* record; an exception is caught by the worker's except clause
TaskSave ==
    /\ batch_pc = "mapping"
    /\ \E i \in DOMAIN task :
          /\ task[i].pc = "writing"
          /\ task' = [task EXCEPT ![i] =
                IF pdfs[i].writable
                THEN [Finished(i, [file |-> i, status |-> "success",
                                   pages |-> Len(pdfs[i].pages),
                                   text_file |-> TextFile(i)])
                          EXCEPT !.accessed =
                              task[i].accessed \cup {TextFile(i), MetadataFile(i)}]
                ELSE [Finished(i, Failed(i, "OSError"))
                          EXCEPT !.accessed = task[i].accessed \cup {TextFile(i)}]]
    /\ UNCHANGED <<poolFixed, batch_pc, batch_results>>

\* pool.map returns the workers' records in the order of the list
PoolMapReturn ==
    /\ batch_pc = "mapping"
    /\ \A i \in DOMAIN task : task[i].pc = "finished"
    /\ batch_results' = [i \in DOMAIN task |-> Val(task[i].result)]
    /\ batch_pc' = "done"
    /\ UNCHANGED <<poolFixed, task>>

ParallelNext ==
    \/ TaskStart
    \/ TaskPlan
    \/ TaskSave
    \/ PoolMapReturn

ParallelSpec == PoolInit /\ [][ParallelNext]_vars

\* =====================================================================
\* Properties
\* =====================================================================

IsPlan(r) == "chunks" \in DOMAIN r
PlanReturned == op = "get_smart_chunks" /\ pc = "done" /\ IsPlan(result)
ExtractReturned ==
    op = "extract_text_from_pages" /\ pc = "done" /\ file_exists /\ file_readable

PagesOf(c) == c.start_page .. c.end_page
Covered(cs) == UNION {PagesOf(cs[k]) : k \in 1..Len(cs)}
Shared(a, b) == Cardinality(PagesOf(a) \cap PagesOf(b))

RECURSIVE SumLens(_, _, _)
SumLens(pages, from, to) ==
    IF from > to THEN 0
    ELSE PageTextLen(pages[from]) + SumLens(pages, from + 1, to)

\* C1: for every document, every positive max_chars_per_chunk and every
\* non-negative overlap_pages, a call of get_smart_chunks that has entered
\* its planning loop eventually returns, and what it returns is a chunk plan.
\* The document and the arguments do not change during a call, so what an
\* iteration does is a function of current_page alone: a loop that
\* terminates never completes an iteration that leaves current_page where
\* it was (second conjunct, implied by the first).
C1_PlanTerminates ==
    /\ (pc = "planning") ~> (pc = "done" /\ IsPlan(result))
    /\ [][PlanIter => current_page' # current_page]_vars

\* C2: in every returned plan the chunks' page ranges cover exactly
\* 1..total_pages: the first chunk starts at page 1, each later chunk starts
\* no later than one page after the previous chunk's end, and the last chunk
\* ends at total_pages.
C2_PlanCoversAllPages ==
    PlanReturned =>
        LET cs == result.chunks
        IN  /\ Covered(cs) = 1..total_pages
            /\ cs # <<>> => /\ cs[1].start_page = 1
                            /\ cs[Len(cs)].end_page = total_pages
            /\ \A k \in 1..(Len(cs) - 1) :
                   cs[k + 1].start_page <= cs[k].end_page + 1

C2_Witness ==
    /\ PlanReturned
    /\ Len(result.chunks) >= 2
    /\ total_pages = MaxPages

\* C3: every chunk the planner emits stays within max_chars_per_chunk unless
\* it consists of a single page.
C3_ChunkWithinBudget ==
    \A k \in 1..Len(chunks) :
        \/ chunks[k].estimated_chars <= max_chars_per_chunk
        \/ chunks[k].start_page = chunks[k].end_page

\* C4: for the example document (pages 1-5 of 6,000 characters, pages 6-10
\* of 1,000), max_chars_per_chunk = 10000 and overlap_pages = 0, the plan is
\* [1-1],[2-2],[3-3],[4-4],[5-5],[6-10] in that order.
C4_ExamplePlan ==
    (PlanReturned /\ doc = ExampleDoc /\ max_chars_per_chunk = 10000
        /\ overlap_pages = 0) =>
        [k \in 1..Len(result.chunks) |->
            <<result.chunks[k].start_page, result.chunks[k].end_page>>]
        = << <<1, 1>>, <<2, 2>>, <<3, 3>>, <<4, 4>>, <<5, 5>>, <<6, 10>> >>

\* C5: every chunk the planner emits has
\* 1 <= start_page <= end_page <= total_pages, whatever the overlap.
C5_ChunkRangeValid ==
    \A k \in 1..Len(chunks) :
        /\ 1 <= chunks[k].start_page
        /\ chunks[k].start_page <= chunks[k].end_page
        /\ chunks[k].end_page <= total_pages

\* C6: the chunk_number values are 1, 2, ..., N in emission order, and the
\* returned total_chunks is N.
C6_ChunkNumbersContiguous ==
    /\ \A k \in 1..Len(chunks) : chunks[k].chunk_number = k
    /\ PlanReturned =>
          /\ result.total_chunks = Len(result.chunks)
          /\ \A k \in 1..Len(result.chunks) : result.chunks[k].chunk_number = k

C6_Witness ==
    /\ PlanReturned
    /\ result.total_chunks >= 2
    /\ result.chunks[result.total_chunks].chunk_number = result.total_chunks

\* C7: two consecutive chunks share at most overlap_pages pages; a plan
\* returned for overlap_pages = 0 has pairwise disjoint chunks that together
\* are exactly 1..total_pages.
C7_OverlapBounded ==
    /\ \A k \in 1..(Len(chunks) - 1) :
           Shared(chunks[k], chunks[k + 1]) <= overlap_pages
    /\ (PlanReturned /\ overlap_pages = 0) =>
           LET cs == result.chunks
           IN  /\ \A j, k \in 1..Len(cs) : j # k => Shared(cs[j], cs[k]) = 0
               /\ Covered(cs) = 1..total_pages

C7_Witness ==
    /\ Len(chunks) >= 2
    /\ overlap_pages >= 1
    /\ chunks[2].start_page > chunks[1].start_page
    /\ Shared(chunks[1], chunks[2]) = overlap_pages

\* C8: for a document of zero pages get_smart_chunks returns a plan without
\* an error key, with an empty chunk list and total_chunks = 0, for every
\* max_chars_per_chunk and overlap_pages.
C8_EmptyDocumentEmptyPlan ==
    (op = "get_smart_chunks" /\ file_exists /\ file_readable
        /\ total_pages = 0) =>
        /\ pc \in {"planning", "done"}
        /\ pc = "planning" => chunks = <<>> /\ ENABLED PlanReturn
        /\ pc = "done" => /\ ~IsError(result)
                          /\ IsPlan(result)
                          /\ result.chunks = <<>>
                          /\ result.total_chunks = 0

C8_Witness ==
    /\ op = "get_smart_chunks"
    /\ pc = "done"
    /\ file_exists
    /\ file_readable
    /\ total_pages = 0
    /\ overlap_pages = MaxOverlap
    /\ result.total_chunks = 0

\* C9: extract_text_from_pages returns the invalid-start_page error, and no
\* other field, exactly when start_page < 1 or start_page > total_pages
\* (every start_page when the document has no pages).
C9_StartPageRangeCheck ==
    ExtractReturned =>
        /\ (start_page < 1 \/ start_page > total_pages) <=> IsError(result)
        /\ IsError(result) => result = [error |-> "Invalid start_page"]
        /\ total_pages = 0 => IsError(result)

C9_Witness ==
    /\ ExtractReturned
    /\ total_pages >= 1
    /\ start_page = total_pages + 1
    /\ IsError(result)

\* the end page extraction uses: total_pages for an absent or too large
\* end_page
EffectiveEnd ==
    IF end_page = None \/ Val(end_page) > total_pages
    THEN total_pages ELSE Val(end_page)

\* no page of the requested range hits the max_chars budget
NoMaxCharsCut ==
    \/ max_chars = None
    \/ Val(max_chars) = 0
    \/ SumLens(doc, start_page, EffectiveEnd) <= Val(max_chars)

\* the result holds exactly `count` full blocks, for the pages from
\* start_page on in ascending order
ExtractsPages(count) ==
    /\ ~IsError(result)
    /\ result.pages_requested = <<start_page, EffectiveEnd>>
    /\ result.pages_processed = count
    /\ Len(result.text) = result.pages_processed
    /\ \A i \in 1..Len(result.text) :
           result.text[i] = Block(start_page + i - 1, FALSE,
                                  PageTextLen(doc[start_page + i - 1]))
    /\ result.text_length_chars = SumLens(doc, start_page, EffectiveEnd)
    /\ "truncated" \notin DOMAIN result

\* C10 as stated: an absent or too large end_page is replaced by
\* total_pages and, without a max_chars cut, the pages start_page..end_page
\* are processed in ascending order, one block per page, with
\* pages_processed = end_page - start_page + 1 and text_length_chars the sum
\* of their text lengths.
C10_PagesProcessedAsStated ==
    (ExtractReturned /\ start_page \in 1..total_pages /\ NoMaxCharsCut) =>
        ExtractsPages(EffectiveEnd - start_page + 1)

\* C10 amended: as above, with pages_processed = end_page - start_page + 1
\* when end_page >= start_page and 0 when end_page < start_page.
C10_PagesProcessed ==
    (ExtractReturned /\ start_page \in 1..total_pages /\ NoMaxCharsCut) =>
        ExtractsPages(IF EffectiveEnd >= start_page
                      THEN EffectiveEnd - start_page + 1 ELSE 0)

C10_Witness ==
    /\ ExtractReturned
    /\ end_page # None
    /\ Val(end_page) > total_pages
    /\ max_chars = None
    /\ ~IsError(result)
    /\ result.pages_processed >= 2
    /\ \E i \in 1..Len(result.text) : result.text[i].chars = 0

\* the characters of page text held by a sequence of blocks
RECURSIVE BlockChars(_)
BlockChars(blocks) ==
    IF blocks = <<>> THEN 0
    ELSE Head(blocks).chars + BlockChars(Tail(blocks))

MaxCharsSet == max_chars # None /\ Val(max_chars) > 0

\* C11: when max_chars is set (a positive integer), the page content
\* extract_text_from_pages returns, counted without the page markers, never
\* exceeds max_chars.
C11_ContentWithinMaxChars ==
    (ExtractReturned /\ MaxCharsSet /\ ~IsError(result)) =>
        /\ result.text_length_chars <= Val(max_chars)
        /\ BlockChars(result.text) <= Val(max_chars)

C11_Witness ==
    /\ ExtractReturned
    /\ MaxCharsSet
    /\ ~IsError(result)
    /\ result.pages_processed >= 2
    /\ SumLens(doc, start_page, EffectiveEnd) > Val(max_chars)
    /\ result.text_length_chars = Val(max_chars)

\* C12: with max_chars set, the result carries truncated = true exactly when
\* the text of the pages start_page..end_page (after clamping) is longer
\* than max_chars; when it fits there is no truncated flag and no note, and
\* every requested page is returned in full.
C12_TruncatedIffOverBudget ==
    (ExtractReturned /\ MaxCharsSet /\ start_page \in 1..total_pages) =>
        /\ ~IsError(result)
        /\ ("truncated" \in DOMAIN result) <=>
               (SumLens(doc, start_page, EffectiveEnd) > Val(max_chars))
        /\ "truncated" \in DOMAIN result =>
               result.truncated = TRUE /\ "note" \in DOMAIN result
        /\ "truncated" \notin DOMAIN result =>
               /\ "note" \notin DOMAIN result
               /\ ExtractsPages(IF EffectiveEnd >= start_page
                                THEN EffectiveEnd - start_page + 1 ELSE 0)

C12_Witness ==
    /\ ExtractReturned
    /\ MaxCharsSet
    /\ ~IsError(result)
    /\ result.pages_processed >= 2
    /\ SumLens(doc, start_page, EffectiveEnd) = Val(max_chars)
    /\ "truncated" \notin DOMAIN result

\* text_length_chars of extract_text_from_pages(start_page, end_page) summed
\* over the chunks cs; -1 if one of the extractions returns an error
RECURSIVE ChunkExtractSum(_)
ChunkExtractSum(cs) ==
    IF cs = <<>> THEN 0
    ELSE LET r == ExtractResult(doc, Head(cs).start_page,
                                Some(Head(cs).end_page), None)
             rest == ChunkExtractSum(Tail(cs))
         IN  IF IsError(r) \/ rest < 0 THEN -1
             ELSE r.text_length_chars + rest

\* one extraction of the full range 1..total_pages
FullExtraction == ExtractResult(doc, 1, Some(total_pages), None)

\* C13 as stated: for any document, the text_length_chars of the extractions
\* of all chunks of a plan with overlap_pages = 0 add up to the
\* text_length_chars of one extraction of 1..total_pages.
C13_ChunkSumAsStated ==
    (PlanReturned /\ overlap_pages = 0) =>
        /\ ~IsError(FullExtraction)
        /\ ChunkExtractSum(result.chunks) = FullExtraction.text_length_chars

\* C13 amended: the same for any document with at least one page (for a
\* document without pages the full-range extraction is an error result).
C13_ChunkSum ==
    (PlanReturned /\ overlap_pages = 0 /\ total_pages >= 1) =>
        /\ ~IsError(FullExtraction)
        /\ ChunkExtractSum(result.chunks) = FullExtraction.text_length_chars

C13_Witness ==
    /\ PlanReturned
    /\ overlap_pages = 0
    /\ result.total_chunks >= 2
    /\ ChunkExtractSum(result.chunks) >= 2
    /\ \A k \in 1..Len(result.chunks) : result.chunks[k].estimated_chars >= 1

SearchReturned ==
    op = "search_pdf" /\ pc = "done" /\ file_exists /\ file_readable

\* the places <<page, position>> (1-based page, 0-based position) at which
\* the query occurs in a page's text, letter case ignored
OccursOnPage(p, i) ==
    /\ i + Len(query) <= Len(texts[p])
    /\ \A k \in 1..Len(query) :
           LowerChar(texts[p][i + k]) = LowerChar(query[k])
Occurrences ==
    UNION {{<<p, i>> : i \in {j \in 0..Len(texts[p]) : OccursOnPage(p, j)}} :
              p \in 1..Len(texts)}

PlaceOf(m) == <<m.page, m.position>>
Before(a, b) == (a[1] < b[1]) \/ (a[1] = b[1] /\ a[2] < b[2])
PlacesOf(ms) == {PlaceOf(ms[k]) : k \in 1..Len(ms)}
Ascending(ms) ==
    \A j, k \in 1..Len(ms) : j < k => Before(PlaceOf(ms[j]), PlaceOf(ms[k]))

\* C14: for a non-empty query and max_results larger than the number of
\* occurrences, search_pdf returns exactly one match per place at which the
\* lower-cased query occurs in a page's lower-cased text (overlapping
\* occurrences included, none spanning two pages), in ascending order of
\* page, then position.
C14_AllOccurrencesInOrder ==
    (SearchReturned /\ query # <<>>
        /\ max_results > Cardinality(Occurrences)) =>
        /\ ~IsError(result)
        /\ PlacesOf(result.matches) = Occurrences
        /\ Len(result.matches) = Cardinality(Occurrences)
        /\ Ascending(result.matches)
        /\ result.total_matches = Len(result.matches)

C14_Witness ==
    /\ SearchReturned
    /\ Len(query) = 2
    /\ max_results > Cardinality(Occurrences)
    /\ Len(result.matches) >= 2
    /\ result.matches[1].page = 3
    /\ result.matches[2].page = 3
    /\ result.matches[2].position = result.matches[1].position + 1

\* C15: search_pdf never returns more than max_results matches; the matches
\* returned are the first max_results occurrences in page, position order,
\* and truncated is true exactly when their number reached max_results.
C15_AtMostMaxResults ==
    SearchReturned =>
        LET ms == result.matches
            n == Cardinality(Occurrences)
        IN  /\ Len(ms) <= max_results
            /\ Len(ms) = IF n < max_results THEN n ELSE max_results
            /\ Ascending(ms)
            /\ PlacesOf(ms) \subseteq Occurrences
            /\ \A o \in Occurrences \ PlacesOf(ms) :
                   \A m \in PlacesOf(ms) : Before(m, o)
            /\ result.truncated = (Len(ms) >= max_results)
            /\ result.total_matches = Len(ms)

C15_Witness ==
    /\ SearchReturned
    /\ query # <<>>
    /\ max_results >= 2
    /\ Cardinality(Occurrences) > max_results
    /\ Len(result.matches) = max_results
    /\ result.matches[1].page # result.matches[max_results].page
    /\ result.truncated

\* C16: search_pdf called with the empty string as query returns an error
\* result and no matches.
C16_EmptyQueryRejected ==
    (SearchReturned /\ query = <<>>) =>
        /\ IsError(result)
        /\ "matches" \notin DOMAIN result

\* the characters from..to-1 (0-based) of a page's text
Window(text, from, to) == [i \in 1..(to - from) |-> text[from + i]]

\* C17: the context of a match at position idx is the page's text from
\* max(0, idx - context_chars) to
\* min(page length, idx + len(query) + context_chars), with a leading
\* ellipsis exactly when the window does not start at the page's first
\* character and a trailing one exactly when it does not end at its last.
C17_ContextWindow ==
    SearchReturned =>
        \A k \in 1..Len(result.matches) :
            LET m == result.matches[k]
                text == texts[m.page]
                from == IF m.position - context_chars > 0
                        THEN m.position - context_chars ELSE 0
                upto == m.position + Len(query) + context_chars
                to == IF upto < Len(text) THEN upto ELSE Len(text)
            IN  m.context =
                    (IF from > 0 THEN <<".", ".", ".">> ELSE <<>>)
                    \o Window(text, from, to)
                    \o (IF to < Len(text) THEN <<".", ".", ".">> ELSE <<>>)

C17_Witness ==
    /\ SearchReturned
    /\ context_chars >= 1
    /\ \E k \in 1..Len(result.matches) :
          LET m == result.matches[k]
          IN  /\ m.position - context_chars > 0
              /\ m.position + Len(query) = Len(texts[m.page])
              /\ Len(query) >= 1
              /\ Len(m.context) = 3 + context_chars + Len(query)

Returned == pc = "done"
FileUnusable == ~file_exists \/ ~file_readable

\* C18: each of the four operations reports every failure (no file at the
\* path, a file that cannot be read, an invalid page range) as a result
\* holding an error string and nothing else, and no exception ever leaves an
\* operation; get_pdf_metadata on a non-existent path returns the
\* file-not-found error.
C18_FailuresAreErrorResults ==
    /\ pc # "raised"
    /\ Returned =>
          /\ IsError(result) => DOMAIN result = {"error"}
          /\ FileUnusable => IsError(result)
          /\ (op = "extract_text_from_pages"
                 /\ (start_page < 1 \/ start_page > total_pages)) =>
                 IsError(result)
          /\ (op = "get_pdf_metadata" /\ ~file_exists) =>
                 result = [error |-> "File not found"]

C18_Witness ==
    /\ Returned
    /\ op = "get_pdf_metadata"
    /\ ~file_exists
    /\ IsError(result)

MetadataReturned ==
    op = "get_pdf_metadata" /\ pc = "done" /\ file_exists /\ file_readable

OptionalFields ==
    [title |-> "/Title", author |-> "/Author", subject |-> "/Subject",
     creator |-> "/Creator"]

Declares(key) == doc_info # None /\ key \in DOMAIN doc_info

\* C19 as stated: each of title, author, subject and creator is in the
\* result of get_pdf_metadata exactly when the document declares it.
C19_OptionalFieldsAsStated ==
    MetadataReturned =>
        \A f \in DOMAIN OptionalFields :
            (f \in DOMAIN result) <=> Declares(OptionalFields[f])

\* C19 amended: the four fields are in the result exactly when the document
\* has a non-empty information dictionary; each then holds the declared
\* value, or the empty string when the document does not declare it.
C19_OptionalFields ==
    MetadataReturned =>
        /\ ~IsError(result)
        /\ \A f \in DOMAIN OptionalFields :
               /\ (f \in DOMAIN result) <=> (doc_info # None)
               /\ f \in DOMAIN result =>
                      result[f] = IF Declares(OptionalFields[f])
                                  THEN doc_info[OptionalFields[f]] ELSE ""

C19_Witness ==
    /\ MetadataReturned
    /\ Declares("/Title")
    /\ ~Declares("/Author")
    /\ result.title = "a title"
    /\ result.author = ""

\* C20: an operation holds at most one document handle, only while it runs,
\* and has released it when it returns, on every return path; no handle is
\* open between two calls.
C20_HandleReleased ==
    /\ handles \in {0, 1}
    /\ pc \in {"idle", "done", "raised"} => handles = 0
    /\ handles = 1 => pc = "planning"

C20_Witness ==
    /\ Returned
    /\ op = "get_smart_chunks"
    /\ file_readable
    /\ IsError(result)
    /\ handles = 0

\* C23: each completed iteration of the planning loop leaves the scan
\* position at end + 1 - overlap_pages when overlap_pages is smaller than the
\* page count of the chunk it emitted and at end + 1 otherwise, and in both
\* cases beyond the start page of that chunk.
C23_AdvanceAsStated ==
    [][PlanIter =>
          LET c == chunks'[Len(chunks')]
              count == c.end_page - c.start_page + 1
          IN  /\ current_page' = IF overlap_pages < count
                                 THEN c.end_page + 1 - overlap_pages
                                 ELSE c.end_page + 1
              /\ current_page' > c.start_page]_vars

\* the last page of the greedy chunk that starts at page s: s when page s
\* alone exceeds the budget, and otherwise the largest e for which the pages
\* s..e fit
GreedyEnd(s, maxc) ==
    IF PageTextLen(doc[s]) > maxc THEN s
    ELSE CHOOSE e \in s..total_pages :
             /\ SumLens(doc, s, e) <= maxc
             /\ \A f \in (e + 1)..total_pages : SumLens(doc, s, f) > maxc

\* C24: every chunk the planner emits from a page s of the document ends at
\* the last page of the greedy chunk of s; so it ends before total_pages only
\* if the next page would exceed the budget.
C24_GreedyMaximal ==
    \A k \in 1..Len(chunks) :
        chunks[k].start_page \in 1..total_pages =>
            chunks[k].end_page = GreedyEnd(chunks[k].start_page,
                                           max_chars_per_chunk)

\* the first page from start_page on at which the text taken so far and the
\* page's own text together exceed max_chars
CutPage ==
    CHOOSE p \in start_page..EffectiveEnd :
        /\ SumLens(doc, start_page, p) > Val(max_chars)
        /\ SumLens(doc, start_page, p - 1) <= Val(max_chars)

\* C25: when extract_text_from_pages (max_chars a positive integer) hits the
\* budget on page p, the pages before p are returned in full, page p is
\* returned in a block marked partial that holds exactly the
\* max_chars - (characters already taken) first characters of the page,
\* text_length_chars is max_chars, the result has a note, pages_processed is
\* p - start_page + 1 and no page after p is in the text.
C25_PartialPageFillsBudget ==
    (ExtractReturned /\ MaxCharsSet /\ ~IsError(result)
        /\ "truncated" \in DOMAIN result) =>
        LET n == Len(result.text)
            p == CutPage
        IN  /\ n = p - start_page + 1
            /\ result.pages_processed = n
            /\ \A i \in 1..(n - 1) :
                   result.text[i] = Block(start_page + i - 1, FALSE,
                                          PageTextLen(doc[start_page + i - 1]))
            /\ result.text[n] =
                   Block(p, TRUE,
                         Val(max_chars) - SumLens(doc, start_page, p - 1))
            /\ result.text_length_chars = Val(max_chars)
            /\ BlockChars(result.text) = Val(max_chars)
            /\ "note" \in DOMAIN result

C25_Witness ==
    /\ ExtractReturned
    /\ MaxCharsSet
    /\ ~IsError(result)
    /\ "truncated" \in DOMAIN result
    /\ result.pages_processed = 2
    /\ result.text[1].chars >= 1
    /\ result.text[2].partial
    /\ result.text[2].chars >= 1
    /\ EffectiveEnd > result.text[2].page

\* C28: in every plan get_smart_chunks returns, the estimated_chars of each
\* chunk is the sum of the text lengths of the pages start_page..end_page,
\* which is the text_length_chars extract_text_from_pages returns for
\* (start_page, end_page) without max_chars on the same document.
C28_EstimateIsExtractedLength ==
    PlanReturned =>
        \A k \in 1..Len(result.chunks) :
            LET c == result.chunks[k]
                r == ExtractResult(doc, c.start_page, Some(c.end_page), None)
            IN  /\ ~IsError(r)
                /\ c.estimated_chars = r.text_length_chars
                /\ c.estimated_chars = SumLens(doc, c.start_page, c.end_page)

C28_Witness ==
    /\ PlanReturned
    /\ \E k \in 1..Len(result.chunks) :
           /\ result.chunks[k].end_page > result.chunks[k].start_page
           /\ result.chunks[k].estimated_chars >= 2
           /\ k < Len(result.chunks)

\* C29: with start_page in 1..total_pages and an explicit end_page smaller
\* than start_page (zero and negative values included),
\* extract_text_from_pages returns a result without an error key, with
\* pages_processed = 0, text_length_chars = 0, an empty text and no
\* truncated flag.
C29_EndBeforeStartIsEmpty ==
    (ExtractReturned /\ start_page \in 1..total_pages /\ end_page # None
        /\ Val(end_page) < start_page) =>
        /\ ~IsError(result)
        /\ result.pages_processed = 0
        /\ result.text_length_chars = 0
        /\ result.text = <<>>
        /\ "truncated" \notin DOMAIN result

C29_Witness ==
    /\ ExtractReturned
    /\ start_page = total_pages
    /\ end_page # None
    /\ Val(end_page) < 0
    /\ max_chars # None
    /\ Val(max_chars) > 0
    /\ ~IsError(result)
    /\ \A q \in 1..total_pages : PageTextLen(doc[q]) > Val(max_chars)

\* (major, minor, patch) order
VersionLess(a, b) ==
    \/ a[1] < b[1]
    \/ a[1] = b[1] /\ a[2] < b[2]
    \/ a[1] = b[1] /\ a[2] = b[2] /\ a[3] < b[3]

IncrementReturned == git_pc = "incremented"

\* C26: the version increment_version returns is strictly greater than the
\* current one in (major, minor, patch) order: "major" adds 1 to major and
\* sets minor and patch to 0, "minor" adds 1 to minor, sets patch to 0 and
\* keeps major, any other type adds 1 to patch and keeps major and minor.
C26_IncrementVersion ==
    IncrementReturned =>
        LET old == ParseVersion(GetCurrentVersion(version_file))
            new == ParseVersion(Val(new_version))
            vtype == Val(version_type)
        IN  /\ ParsesAsVersion(Val(new_version))
            /\ VersionLess(old, new)
            /\ vtype = "major" => new = <<old[1] + 1, 0, 0>>
            /\ vtype = "minor" => new = <<old[1], old[2] + 1, 0>>
            /\ vtype \notin {"major", "minor"} =>
                   new = <<old[1], old[2], old[3] + 1>>

C26_Witness ==
    /\ IncrementReturned
    /\ Val(version_type) = "minor"
    /\ ParseVersion(GetCurrentVersion(version_file)) = <<0, 9, 9>>
    /\ Val(new_version) = <<"0", ".", "1", "0", ".", "0">>

LastGit(command, success) == last_git = GitCommand(command, success)
\* version.json and the newest changelog entry hold the bumped version
BumpWritten ==
    /\ new_version # None
    /\ version_file # None
    /\ DictGet(Val(version_file), "version", None) = Val(new_version)
    /\ changelog_file # None
    /\ Val(changelog_file).header
    /\ Val(changelog_file).entries # <<>>
    /\ Val(changelog_file).entries[1] = Val(new_version)

\* C30: main leaves version.json and CHANGELOG.md as they are when it
\* returns before the bump (git status fails, or reports no changes); once
\* it stages or commits, both files hold the new version; when staging or
\* the commit fails, main returns False and version.json still holds the
\* bumped version; after a failed push main returns True.
C30_BumpBeforeCommit ==
    /\ [][MainStart => UNCHANGED <<version_file, changelog_file>>]_vars
    /\ [](git_pc = "returned" /\ (LastGit("status", FALSE) \/ LastGit("status", TRUE))
            => new_version = None /\ returned = Some(LastGit("status", TRUE)))
    /\ [](git_pc \in {"bumped", "staged", "committed"} => BumpWritten)
    /\ [](git_pc = "returned" /\ (LastGit("add", FALSE) \/ LastGit("commit", FALSE))
            => returned = Some(FALSE) /\ BumpWritten)
    /\ [](git_pc = "returned" /\ LastGit("push", FALSE) => returned = Some(TRUE))

C30_Witness ==
    /\ git_pc = "returned"
    /\ LastGit("commit", FALSE)
    /\ returned = Some(FALSE)
    /\ BumpWritten
    /\ Val(new_version) = <<"1", "0", ".", "0", ".", "0">>

\* one record per document processed so far, in list order
RecordsInListOrder ==
    /\ Len(batch_results) <= Len(pdfs)
    /\ \A i \in 1..Len(batch_results) :
           /\ batch_results[i].file = i
           /\ batch_results[i].status \in {"success", "failed", "error"}

\* successful and failed as the summary counts them
Successful == Cardinality({i \in 1..Len(batch_results) :
                              batch_results[i].status = "success"})
FailedCount == Len(batch_results) - Successful

\* C21: in the batch drivers a failure while processing one document (an
\* error result from get_pdf_metadata or get_smart_chunks, an exception
\* while extracting or writing) never aborts the run; the records are
\* appended one per document in list order, and when the run reaches its
\* summary there is exactly one record per listed document, each with a
\* success or failure status, so successful + failed = number of documents.
C21_FailureDoesNotAbort ==
    BatchRunning =>
        /\ batch_pc # "aborted"
        /\ RecordsInListOrder
        /\ batch_pc = "done" =>
               /\ Len(batch_results) = Len(pdfs)
               /\ Successful + FailedCount = Len(pdfs)

\* C27: for every document with at least one page, a batch driver's call
\* of get_smart_chunks (default overlap) returns a plan, the document's
\* record is appended and the run reaches its summary; since nothing changes
\* the document during the call, a planning loop that ends leaves its scan
\* position where it was in no iteration.
C27_BatchFinishesDocument ==
    /\ (batch_pc = "planning" /\ total_pages >= 1)
           ~> (batch_pc = "planning" /\ pc = "done" /\ IsPlan(result))
    /\ (batch_pc = "planning" /\ total_pages >= 1)
           ~> (batch_pc = "done" /\ Len(batch_results) = Len(pdfs))
    /\ [][(batch_pc = "planning" /\ PlanIter)
             => current_page' # current_page]_vars

\* the record process_single_pdf returns for document i when it is run on
\* its own
SequentialRecord(i) ==
    IF ~pdfs[i].exists THEN Failed(i, "File not found")
    ELSE IF ~pdfs[i].readable THEN Failed(i, "Failed to read PDF metadata")
    ELSE IF WorkerPlan(pdfs[i]) = "error"
    THEN Failed(i, "Failed to calculate chunks")
    ELSE IF ~pdfs[i].writable THEN Failed(i, "OSError")
    ELSE [file |-> i, status |-> "success", pages |-> Len(pdfs[i].pages),
          text_file |-> TextFile(i)]

\* everything a worker can open for document i
ResourcesOf(i) == {DocumentPath(i), TextFile(i), MetadataFile(i)}

\* the resources of any two listed documents are disjoint
ListedResourcesDisjoint ==
    \A i, j \in 1..Len(PdfStems) :
        i # j => ResourcesOf(i) \cap ResourcesOf(j) = {}

\* C22: in the parallel driver no two workers access the same resource
\* (document, output text file, metadata file): the resources of any two
\* listed documents are disjoint, and so are the sets of files any two
\* tasks have opened; the list pool.map returns holds, in list order, the
\* record each document yields when processed on its own.
C22_WorkersIsolated ==
    driver = "process_kb_parallel" =>
        /\ ListedResourcesDisjoint
        /\ \A i, j \in DOMAIN task :
               i # j => task[i].accessed \cap task[j].accessed = {}
        /\ batch_pc = "done" =>
               batch_results = [i \in 1..Len(pdfs) |-> SequentialRecord(i)]

C22_Witness ==
    /\ driver = "process_kb_parallel"
    /\ batch_pc = "done"
    /\ num_workers >= 2
    /\ Len(batch_results) = MaxPdfs
    /\ batch_results[1].status = "success"
    /\ batch_results[2].status = "failed"
    /\ batch_results[MaxPdfs].status = "success"


====
